---------------------------- MODULE Spec2Model ----------------------------
(***************************************************************************)
(* Model of app.py: the job-application intake service.                    *)
(*                                                                         *)
(* The persistent state is the SQLite file (tables applications and        *)
(* admins with their AUTOINCREMENT counters and the database write lock).  *)
(* Requests are served by threads of one server process; a handler is      *)
(* split exactly where it touches the store or the mail transport, so      *)
(* that two handlers interleave the way two Flask request threads do.      *)
(* Text values are sequences of one-character strings.  The columns        *)
(* motivation and created_at are not modelled (no handler reads them).     *)
(***************************************************************************)
EXTENDS Integers, Sequences, FiniteSets, TLC

(***************************************************************************)
(* Bounds of the model.                                                    *)
(***************************************************************************)
MaxReqs == 3      \* requests accepted in one behaviour of Spec
MaxReqsL == 3     \* requests accepted in one behaviour of SpecL
MaxReqsV == 1     \* requests accepted in one behaviour of SpecV

Threads == {"t1", "t2"}
NoThread == "none"

(***************************************************************************)
(* Text literals.                                                          *)
(***************************************************************************)
Empty == << >>
Blank == <<" ">>
Yes == <<"Y","e","s">>
No == <<"N","o">>
LowerYes == <<"y","e","s">>
Day == <<"D","a","y">>
Night == <<"N","i","g","h","t">>
Both == <<"B","o","t","h">>
Noon == <<"N","o","o","n">>
English == <<"E","n","g","l","i","s","h">>
Korean == <<"K","o","r","e","a","n">>
Latin == <<"L","a","t","i","n">>
NameA == <<"A","n","a">>
NameL == <<"L","e","e">>
MailA == <<"a","@","x">>
MailB == <<"b","@","y">>
MailBad == <<"a","x">>

VALID_LANGUAGES ==
    << English,
       <<"S","p","a","n","i","s","h">>,
       <<"F","r","e","n","c","h">>,
       <<"G","e","r","m","a","n">>,
       <<"C","h","i","n","e","s","e">>,
       <<"A","r","a","b","i","c">>,
       <<"P","o","r","t","u","g","u","e","s","e">>,
       <<"R","u","s","s","i","a","n">>,
       <<"J","a","p","a","n","e","s","e">>,
       Korean >>

VALID_AVAILABILITY == << Day, Night, Both >>

VALID_EXPERIENCE == << Yes, No >>

required ==
    << "first_name", "last_name", "email",
       "experience_level", "language", "availability" >>

ADMIN_EMAIL == <<"recruiting.work4u@gmail.com">>

default_email == <<"admin@work4u.com">>
default_password == <<"a","d","m","i","n","1","2","3">>
other_email == <<"ops@work4u.com">>
unknown_email == <<"nobody@work4u.com">>
other_password == <<"o","p","s","4","5","6","7">>
PwNew == <<"s","e","c","r","e","t","1">>
PwShort == <<"a","b","c","d","e">>
PwWrong == <<"w","r","o","n","g","9","9">>

MinPasswordLen == 6

(***************************************************************************)
(* Python helpers.                                                         *)
(***************************************************************************)
\* x in lst, for a Python list
InList(x, lst) == \E i \in 1..Len(lst) : lst[i] = x

\* ch in s, for a Python str
InStr(ch, s) == \E i \in 1..Len(s) : s[i] = ch

\* bool(data.get(field)) for a dict whose values are str
truthy(data, field) == field \in DOMAIN data /\ data[field] # Empty

MinOf(S) == CHOOSE x \in S : \A y \in S : x <= y
MaxOf(S) == IF S = {} THEN 0 ELSE CHOOSE x \in S : \A y \in S : y <= x

(***************************************************************************)
(* Responses: (jsonify body, HTTP status).                                 *)
(***************************************************************************)
NoResp == [code |-> 0, status |-> "none", message |-> << >>]
Error(code, message) == [code |-> code, status |-> "error", message |-> message]
Success(message) == [code |-> 200, status |-> "success", message |-> message]

(***************************************************************************)
(* submit_application, lines 249-260: the validation chain.  The result is *)
(* the error response of the first failing check, NoResp when all pass.    *)
(***************************************************************************)
missing_fields(data) == {i \in 1..Len(required) : ~truthy(data, required[i])}

\* validate with the email rule checked before the three enumerations
validate_email_first(data) ==
    IF missing_fields(data) # {}
    THEN Error(400, <<"Missing ", required[MinOf(missing_fields(data))]>>)
    ELSE IF ~InStr("@", data["email"])
    THEN Error(400, <<"Invalid email format">>)
    ELSE IF ~InList(data["experience_level"], VALID_EXPERIENCE)
    THEN Error(400, <<"Experience level must be 'Yes' or 'No'">>)
    ELSE IF ~InList(data["language"], VALID_LANGUAGES)
    THEN Error(400, <<"Invalid language selection">>)
    ELSE IF ~InList(data["availability"], VALID_AVAILABILITY)
    THEN Error(400, <<"Availability must be 'Day', 'Night', or 'Both'">>)
    ELSE NoResp

validate(data) ==
    IF missing_fields(data) # {}
    THEN Error(400, <<"Missing ", required[MinOf(missing_fields(data))]>>)
    ELSE IF ~InList(data["experience_level"], VALID_EXPERIENCE)
    THEN Error(400, <<"Experience level must be 'Yes' or 'No'">>)
    ELSE IF ~InList(data["language"], VALID_LANGUAGES)
    THEN Error(400, <<"Invalid language selection">>)
    ELSE IF ~InList(data["availability"], VALID_AVAILABILITY)
    THEN Error(400, <<"Availability must be 'Day', 'Night', or 'Both'">>)
    ELSE IF ~InStr("@", data["email"])
    THEN Error(400, <<"Invalid email format">>)
    ELSE NoResp

(***************************************************************************)
(* bcrypt, as an ideal salted hash: the digest determines salt and input.  *)
(* Inputs stay far below bcrypt's 72-byte input limit.                     *)
(***************************************************************************)
Salts == {1, 2}
hashpw(password, salt) == [salt |-> salt, digest |-> <<salt, password>>]
checkpw(password, hashed) == hashpw(password, hashed.salt) = hashed

\* send_email without its except clause: a transport failure propagates
send_email_raises(key_set, transport_ok) ==
    IF ~key_set THEN "False"
    ELSE IF transport_ok THEN "True" ELSE "raise"

(***************************************************************************)
(* send_email / send_email_html, lines 93-132.  transport_ok is the        *)
(* outcome of sg.send; the result is the Python return value.              *)
(***************************************************************************)
send_email(key_set, transport_ok) ==
    IF ~key_set THEN "False"
    ELSE IF transport_ok THEN "True" ELSE "False"

(***************************************************************************)
(* The store.                                                              *)
(***************************************************************************)
VARIABLES
    started,        \* the server process is up: init_db has run, app.run serves
    api_key,        \* SENDGRID_API_KEY is set in the process environment
    applications,   \* committed rows of table applications
    app_seq,        \* AUTOINCREMENT high-water mark of applications
    admins,         \* committed rows of table admins
    admin_seq,      \* AUTOINCREMENT high-water mark of admins
    lock,           \* the thread whose connection holds the database write lock
    pc,             \* per thread: position in its handler
    req,            \* per thread: request.get_json() / app_id of its request
    loc,            \* per thread: values fetched by the handler's SELECT
    txn,            \* per thread: the uncommitted write of its connection
    resp,           \* per thread: response of its latest request
    sent,           \* per thread: send attempts made by its latest request
    committed,      \* per thread: its latest request has committed a write
    last_mail,      \* per application id: latest decision email attempted
    budget          \* requests the behaviour may still accept

vars == << started, api_key, applications, app_seq, admins, admin_seq, lock,
           pc, req, loc, txn, resp, sent, committed, last_mail, budget >>

store == << applications, app_seq, admins, admin_seq >>

NoData == [f \in {} |-> Empty]
NoRow == [id |-> 0, first_name |-> Empty, last_name |-> Empty, email |-> Empty,
          experience_level |-> Empty, language |-> Empty,
          availability |-> Empty, status |-> "none"]
NoHash == [salt |-> 0, digest |-> << >>]
NoReq == [op |-> "none", data |-> NoData, app_id |-> 0, form |-> NoData]
NoLoc == [first_name |-> Empty, last_name |-> Empty, email |-> Empty, admin_id |-> 0]
NoTxn == [row |-> NoRow, hash |-> NoHash]

\* the last rowid used, without the increment
next_rowid_stale(rows, seq) == MaxOf({seq} \cup {r.id : r \in rows})

\* INTEGER PRIMARY KEY AUTOINCREMENT: one more than every rowid ever used
next_rowid(rows, seq) == MaxOf({seq} \cup {r.id : r \in rows}) + 1

\* the INSERT of submit_application; status takes the column DEFAULT
new_application(data, id) ==
    [id |-> id,
     first_name |-> data["first_name"],
     last_name |-> data["last_name"],
     email |-> data["email"],
     experience_level |-> data["experience_level"],
     language |-> data["language"],
     availability |-> data["availability"],
     status |-> "pending"]

\* SELECT * FROM applications WHERE id = ?
select_application(rows, id) == {r \in rows : r.id = id}

\* UPDATE applications SET status = ? WHERE id = ?
update_status(rows, id, status) ==
    {IF r.id = id THEN [r EXCEPT !.status = status] ELSE r : r \in rows}

\* SELECT id, password_hash FROM admins WHERE email = ?
select_admin(rows, email) == {a \in rows : a.email = email}

\* the UPDATE without its WHERE clause
update_password_hash_all(rows, id, new_hash) ==
    {[a EXCEPT !.password_hash = new_hash] : a \in rows}

\* UPDATE admins SET password_hash = ? WHERE id = ?
update_password_hash(rows, id, new_hash) ==
    {IF a.id = id THEN [a EXCEPT !.password_hash = new_hash] ELSE a : a \in rows}

\* init_db writing the default account on every start (INSERT OR REPLACE)
bootstrap_admin_replace(rows, seq, salt) ==
    {a \in rows : a.email # default_email}
      \cup {[id |-> IF select_admin(rows, default_email) = {}
                    THEN next_rowid(rows, seq)
                    ELSE (CHOOSE a \in select_admin(rows, default_email) : TRUE).id,
             username |-> "admin",
             email |-> default_email,
             password_hash |-> hashpw(default_password, salt)]}

(***************************************************************************)
(* init_db, lines 70-80: the bootstrap account.  The result is the admins  *)
(* table after the run.  The INSERT violates UNIQUE(username) when another *)
(* account is called "admin"; init_db then raises before its commit.       *)
(***************************************************************************)
bootstrap_admin(rows, seq, salt) ==
    IF select_admin(rows, default_email) = {}
       /\ ~\E a \in rows : a.username = "admin"
    THEN rows \cup {[id |-> next_rowid(rows, seq),
                     username |-> "admin",
                     email |-> default_email,
                     password_hash |-> hashpw(default_password, salt)]}
    ELSE rows

init_db_raises(rows) ==
    select_admin(rows, default_email) = {} /\ \E a \in rows : a.username = "admin"

\* an account provisioned in the database file by other means than this program
ProvisionedAdmin ==
    [id |-> 1, username |-> "ops", email |-> other_email,
     password_hash |-> hashpw(other_password, 1)]

InitCommon ==
    /\ started = FALSE
    /\ api_key = FALSE
    /\ applications = {}
    /\ app_seq = 0
    /\ admins \in {{}, {ProvisionedAdmin}}
    /\ admin_seq = MaxOf({a.id : a \in admins})
    /\ lock = NoThread
    /\ pc = [t \in Threads |-> "idle"]
    /\ req = [t \in Threads |-> NoReq]
    /\ loc = [t \in Threads |-> NoLoc]
    /\ txn = [t \in Threads |-> NoTxn]
    /\ resp = [t \in Threads |-> NoResp]
    /\ sent = [t \in Threads |-> << >>]
    /\ committed = [t \in Threads |-> FALSE]
    /\ last_mail = << >>

(***************************************************************************)
(* Process start (lines 369-372): init_db, then the server accepts         *)
(* requests.  The environment decides whether SENDGRID_API_KEY is set.     *)
(***************************************************************************)
init_db ==
    /\ ~started
    /\ ~init_db_raises(admins)
    /\ \E salt \in Salts :
         /\ admins' = bootstrap_admin(admins, admin_seq, salt)
         /\ admin_seq' = MaxOf({admin_seq} \cup {a.id : a \in admins'})
    /\ \E k \in BOOLEAN : api_key' = k
    /\ started' = TRUE
    /\ UNCHANGED << applications, app_seq, lock, pc, req, loc, txn, resp, sent,
                    committed, last_mail, budget >>

\* the process exits with no request in flight: the database file stays,
\* what the threads held is gone
shutdown ==
    /\ started
    /\ \A t \in Threads : pc[t] = "idle"
    /\ started' = FALSE
    /\ req' = [t \in Threads |-> NoReq]
    /\ loc' = [t \in Threads |-> NoLoc]
    /\ txn' = [t \in Threads |-> NoTxn]
    /\ resp' = [t \in Threads |-> NoResp]
    /\ sent' = [t \in Threads |-> << >>]
    /\ committed' = [t \in Threads |-> FALSE]
    /\ UNCHANGED << api_key, store, lock, pc, last_mail, budget >>

\* a thread picks up a request: the bookkeeping common to every handler
accept(t, r) ==
    /\ started
    /\ pc[t] = "idle"
    /\ budget > 0
    /\ budget' = budget - 1
    /\ req' = [req EXCEPT ![t] = r]
    /\ sent' = [sent EXCEPT ![t] = << >>]
    /\ committed' = [committed EXCEPT ![t] = FALSE]
    /\ txn' = [txn EXCEPT ![t] = NoTxn]

\* the handler returns response r
reply(t, r) ==
    /\ resp' = [resp EXCEPT ![t] = r]
    /\ pc' = [pc EXCEPT ![t] = "idle"]

\* the handler goes on to step p
goto(t, p) ==
    /\ resp' = [resp EXCEPT ![t] = NoResp]
    /\ pc' = [pc EXCEPT ![t] = p]

\* the message of each handler's except clause
server_error(op) ==
    CASE op = "apply" -> Error(500, <<"Server error">>)
      [] op = "approve" -> Error(500, <<"Approve failed">>)
      [] op = "reject" -> Error(500, <<"Reject failed">>)
      [] OTHER -> Error(500, <<"Server error">>)

(***************************************************************************)
(* POST /apply: submit_application, lines 246-282.                         *)
(***************************************************************************)
\* lines 248-260: read the payload and validate it
submit_application(t, data) ==
    /\ accept(t, [NoReq EXCEPT !.op = "apply", !.data = data])
    /\ IF validate(data) # NoResp
       THEN reply(t, validate(data))
       ELSE goto(t, "apply_insert")
    /\ UNCHANGED << started, api_key, store, lock, loc, last_mail >>

\* lines 265-273: the INSERT opens the connection's write transaction
apply_insert(t) ==
    /\ pc[t] = "apply_insert"
    /\ lock = NoThread
    /\ lock' = t
    /\ txn' = [txn EXCEPT ![t].row =
                 new_application(req[t].data, next_rowid(applications, app_seq))]
    /\ pc' = [pc EXCEPT ![t] = "apply_commit"]
    /\ UNCHANGED << started, api_key, store, req, loc, resp, sent, committed,
                    last_mail, budget >>

\* lines 274-275: conn.commit() makes the row and its id durable
apply_commit(t) ==
    /\ pc[t] = "apply_commit"
    /\ lock = t
    /\ applications' = applications \cup {txn[t].row}
    /\ app_seq' = txn[t].row.id
    /\ last_mail' = (txn[t].row.id :> "none") @@ last_mail
    /\ lock' = NoThread
    /\ committed' = [committed EXCEPT ![t] = TRUE]
    /\ pc' = [pc EXCEPT ![t] = "apply_confirm"]
    /\ UNCHANGED << started, api_key, admins, admin_seq, req, loc, txn, resp,
                    sent, budget >>

\* one call of send_email: the attempt is recorded; a result that is no
\* Python bool stands for an exception propagating to the handler
attempt(t, kind, to, result) ==
    sent' = [sent EXCEPT ![t] =
               Append(@, [kind |-> kind, to |-> to, result |-> result])]

\* line 277: send_confirmation_email
apply_confirm(t) ==
    /\ pc[t] = "apply_confirm"
    /\ \E ok \in BOOLEAN :
         LET result == send_email(api_key, ok) IN
           /\ attempt(t, "confirmation", req[t].data["email"], result)
           /\ IF result \in {"True", "False"}
              THEN pc' = [pc EXCEPT ![t] = "apply_notify"] /\ UNCHANGED resp
              ELSE reply(t, server_error("apply"))
    /\ UNCHANGED << started, api_key, store, lock, req, loc, txn, committed,
                    last_mail, budget >>

\* lines 278-279: send_admin_notification, then the success response
apply_notify(t) ==
    /\ pc[t] = "apply_notify"
    /\ \E ok \in BOOLEAN :
         LET result == send_email(api_key, ok) IN
           /\ attempt(t, "admin_notification", ADMIN_EMAIL, result)
           /\ IF result \in {"True", "False"}
              THEN reply(t, Success(<<"Submitted">>))
              ELSE reply(t, server_error("apply"))
    /\ UNCHANGED << started, api_key, store, lock, req, loc, txn, committed,
                    last_mail, budget >>

(***************************************************************************)
(* POST /applications/<id>/approve and /reject: approve_application,       *)
(* lines 296-314, and reject_application, lines 316-334.                   *)
(***************************************************************************)
\* lines 299-306 and 319-326: the SELECT and the 404
decide_fetch(t, op, app_id) ==
    /\ accept(t, [NoReq EXCEPT !.op = op, !.app_id = app_id])
    /\ IF select_application(applications, app_id) = {}
       THEN /\ reply(t, Error(404, <<"Application not found">>))
            /\ UNCHANGED loc
       ELSE LET app == CHOOSE r \in select_application(applications, app_id) : TRUE
            IN /\ loc' = [loc EXCEPT ![t] =
                            [NoLoc EXCEPT !.first_name = app.first_name,
                                          !.last_name = app.last_name,
                                          !.email = app.email]]
               /\ goto(t, "decide_update")
    /\ UNCHANGED << started, api_key, store, lock, last_mail >>

approve_application(t, app_id) == decide_fetch(t, "approve", app_id)

reject_application(t, app_id) == decide_fetch(t, "reject", app_id)

decision(op) == IF op = "approve" THEN "approved" ELSE "rejected"

decision_mail(op) == IF op = "approve" THEN "approval" ELSE "rejection"

\* lines 307 and 327: the UPDATE opens the connection's write transaction
decide_update(t) ==
    /\ pc[t] = "decide_update"
    /\ lock = NoThread
    /\ lock' = t
    /\ pc' = [pc EXCEPT ![t] = "decide_commit"]
    /\ UNCHANGED << started, api_key, store, req, loc, txn, resp, sent,
                    committed, last_mail, budget >>

\* lines 308-309 and 328-329: conn.commit()
decide_commit(t) ==
    /\ pc[t] = "decide_commit"
    /\ lock = t
    /\ applications' = update_status(applications, req[t].app_id, decision(req[t].op))
    /\ lock' = NoThread
    /\ committed' = [committed EXCEPT ![t] = TRUE]
    /\ pc' = [pc EXCEPT ![t] = "decide_mail"]
    /\ UNCHANGED << started, api_key, app_seq, admins, admin_seq, req, loc, txn,
                    resp, sent, last_mail, budget >>

\* decide_mail undoing the decision when the send fails
decide_mail_rollback(t) ==
    /\ pc[t] = "decide_mail"
    /\ \E ok \in BOOLEAN :
         LET result == send_email(api_key, ok) IN
           /\ attempt(t, decision_mail(req[t].op), loc[t].email, result)
           /\ IF result = "True"
              THEN /\ reply(t, Success(<<"Application decided and email sent">>))
                   /\ UNCHANGED applications
              ELSE /\ reply(t, server_error(req[t].op))
                   /\ applications' = update_status(applications, req[t].app_id, "pending")
    /\ last_mail' = [last_mail EXCEPT ![req[t].app_id] = decision_mail(req[t].op)]
    /\ UNCHANGED << started, api_key, app_seq, admins, admin_seq, lock, req, loc,
                    txn, committed, budget >>

\* lines 310-311 and 330-331: send_approval_email / send_rejection_email,
\* then the success response
decide_mail(t) ==
    /\ pc[t] = "decide_mail"
    /\ \E ok \in BOOLEAN :
         LET result == send_email(api_key, ok) IN
           /\ attempt(t, decision_mail(req[t].op), loc[t].email, result)
           /\ IF result \in {"True", "False"}
              THEN reply(t, Success(IF req[t].op = "approve"
                                    THEN <<"Application approved and email sent">>
                                    ELSE <<"Application rejected and email sent">>))
              ELSE reply(t, server_error(req[t].op))
    /\ last_mail' = [last_mail EXCEPT ![req[t].app_id] = decision_mail(req[t].op)]
    /\ UNCHANGED << started, api_key, store, lock, req, loc, txn, committed,
                    budget >>

(***************************************************************************)
(* POST /change-password: change_password, lines 336-367.                  *)
(***************************************************************************)
\* line 343: data.get('email', 'admin@work4u.com')
form_email(form) == IF "email" \in DOMAIN form THEN form["email"] ELSE default_email

\* the checks of change_password without the comparison against the stored hash
check_password_form_no_auth(form, rows) ==
    IF ~(truthy(form, "currentPassword") /\ truthy(form, "newPassword")
         /\ truthy(form, "confirmPassword"))
    THEN Error(400, <<"All fields required">>)
    ELSE IF form["newPassword"] # form["confirmPassword"]
    THEN Error(400, <<"Passwords do not match">>)
    ELSE IF Len(form["newPassword"]) < MinPasswordLen
    THEN Error(400, <<"Password too short">>)
    ELSE IF select_admin(rows, form_email(form)) = {}
    THEN Error(401, <<"Invalid current password">>)
    ELSE NoResp

\* lines 345-358: the checks, in order; NoResp when all pass
check_password_form(form, rows) ==
    IF ~(truthy(form, "currentPassword") /\ truthy(form, "newPassword")
         /\ truthy(form, "confirmPassword"))
    THEN Error(400, <<"All fields required">>)
    ELSE IF form["newPassword"] # form["confirmPassword"]
    THEN Error(400, <<"Passwords do not match">>)
    ELSE IF Len(form["newPassword"]) < MinPasswordLen
    THEN Error(400, <<"Password too short">>)
    ELSE IF select_admin(rows, form_email(form)) = {}
    THEN Error(401, <<"Invalid current password">>)
    ELSE IF ~checkpw(form["currentPassword"],
                     (CHOOSE a \in select_admin(rows, form_email(form)) : TRUE).password_hash)
    THEN Error(401, <<"Invalid current password">>)
    ELSE NoResp

change_password(t, form) ==
    /\ accept(t, [NoReq EXCEPT !.op = "change_password", !.form = form])
    /\ IF check_password_form(form, admins) # NoResp
       THEN /\ reply(t, check_password_form(form, admins))
            /\ UNCHANGED loc
       ELSE /\ loc' = [loc EXCEPT ![t] =
                         [NoLoc EXCEPT !.admin_id =
                            (CHOOSE a \in select_admin(admins, form_email(form)) : TRUE).id]]
            /\ goto(t, "pw_update")
    /\ UNCHANGED << started, api_key, store, lock, last_mail >>

\* lines 360-361: hash with a fresh salt; the UPDATE opens the transaction
pw_update(t) ==
    /\ pc[t] = "pw_update"
    /\ lock = NoThread
    /\ lock' = t
    /\ \E salt \in Salts :
         txn' = [txn EXCEPT ![t].hash = hashpw(req[t].form["newPassword"], salt)]
    /\ pc' = [pc EXCEPT ![t] = "pw_commit"]
    /\ UNCHANGED << started, api_key, store, req, loc, resp, sent, committed,
                    last_mail, budget >>

\* lines 362-364: conn.commit(), then the success response
pw_commit(t) ==
    /\ pc[t] = "pw_commit"
    /\ lock = t
    /\ admins' = update_password_hash(admins, loc[t].admin_id, txn[t].hash)
    /\ lock' = NoThread
    /\ committed' = [committed EXCEPT ![t] = TRUE]
    /\ reply(t, Success(<<"Password updated">>))
    /\ UNCHANGED << started, api_key, applications, app_seq, admin_seq, req, loc,
                    txn, sent, last_mail, budget >>

(***************************************************************************)
(* A write statement that finds the database locked by another connection  *)
(* waits (the step above stays disabled) or gives up after the busy        *)
(* timeout: sqlite3.OperationalError, caught by the handler's except       *)
(* clause (lines 280-282, 312-314, 332-334, 365-367).                      *)
(***************************************************************************)
database_locked(t) ==
    /\ pc[t] \in {"apply_insert", "decide_update", "pw_update"}
    /\ lock \notin {NoThread, t}
    /\ reply(t, server_error(req[t].op))
    /\ UNCHANGED << started, api_key, store, lock, req, loc, txn, sent,
                    committed, last_mail, budget >>

(***************************************************************************)
(* Request bodies.  Absent marks a key the JSON object does not have.      *)
(***************************************************************************)
Absent == <<"<absent>">>

without_absent(d) == [k \in {k \in DOMAIN d : d[k] # Absent} |-> d[k]]

payload(fn, ln, em, ex, la, av) ==
    without_absent([first_name |-> fn, last_name |-> ln, email |-> em,
                    experience_level |-> ex, language |-> la, availability |-> av])

password_form(cur, new, conf, em) ==
    without_absent([currentPassword |-> cur, newPassword |-> new,
                    confirmPassword |-> conf, email |-> em])

PayloadA == payload(NameA, NameL, MailA, No, English, Night)
PayloadB == payload(NameL, NameA, MailB, Yes, Korean, Both)
PayloadBad == payload(NameA, NameL, MailA, No, Latin, Night)

\* the payloads of Spec
Payloads == {PayloadA, PayloadBad}

\* the payloads of SpecL
PayloadsL == {PayloadA, PayloadB, PayloadBad}

\* the payloads of SpecV: every field missing or blank, valid, or invalid
AllPayloads ==
    { payload(fn, ln, em, ex, la, av) :
        fn \in {Absent, Blank, NameA},
        ln \in {Empty, NameL},
        em \in {Blank, MailA, MailBad},
        ex \in {Absent, Yes, LowerYes},
        la \in {Blank, English, Latin},
        av \in {Absent, Both, Noon} }

AppIds == 1..2

\* the forms of change_password: valid rotations of either account, a
\* rotation to the password already set, and one form per error
Forms ==
    { password_form(default_password, PwNew, PwNew, Absent),
      password_form(default_password, default_password, default_password, Absent),
      password_form(other_password, PwNew, PwNew, other_email),
      password_form(Absent, PwNew, PwNew, Absent),
      password_form(default_password, PwNew, default_password, Absent),
      password_form(default_password, PwShort, PwShort, Absent),
      password_form(default_password, PwNew, PwNew, unknown_email),
      password_form(PwWrong, PwNew, PwNew, default_email) }

\* thread t is free to take a request
can_accept(t) == started /\ pc[t] = "idle" /\ budget > 0

(***************************************************************************)
(* Spec: the whole service, two request threads.                           *)
(***************************************************************************)
Init == InitCommon /\ budget = MaxReqs

Next ==
    \/ init_db
    \/ shutdown
    \/ \E t \in Threads : can_accept(t) /\ \E data \in Payloads : submit_application(t, data)
    \/ \E t \in Threads : apply_insert(t)
    \/ \E t \in Threads : apply_commit(t)
    \/ \E t \in Threads : apply_confirm(t)
    \/ \E t \in Threads : apply_notify(t)
    \/ \E t \in Threads, app_id \in AppIds : approve_application(t, app_id)
    \/ \E t \in Threads, app_id \in AppIds : reject_application(t, app_id)
    \/ \E t \in Threads : decide_update(t)
    \/ \E t \in Threads : decide_commit(t)
    \/ \E t \in Threads : decide_mail(t)
    \/ \E t \in Threads : can_accept(t) /\ \E form \in Forms : change_password(t, form)
    \/ \E t \in Threads : pw_update(t)
    \/ \E t \in Threads : pw_commit(t)
    \/ \E t \in Threads : database_locked(t)

Spec == Init /\ [][Next]_vars

(***************************************************************************)
(* SpecL: the application lifecycle alone, two request threads.            *)
(***************************************************************************)
InitL == InitCommon /\ budget = MaxReqsL

NextL ==
    \/ init_db
    \/ \E t \in Threads : can_accept(t) /\ \E data \in PayloadsL : submit_application(t, data)
    \/ \E t \in Threads : apply_insert(t)
    \/ \E t \in Threads : apply_commit(t)
    \/ \E t \in Threads : apply_confirm(t)
    \/ \E t \in Threads : apply_notify(t)
    \/ \E t \in Threads, app_id \in AppIds : approve_application(t, app_id)
    \/ \E t \in Threads, app_id \in AppIds : reject_application(t, app_id)
    \/ \E t \in Threads : decide_update(t)
    \/ \E t \in Threads : decide_commit(t)
    \/ \E t \in Threads : decide_mail(t)
    \/ \E t \in Threads : database_locked(t)

SpecL == InitL /\ [][NextL]_vars

(***************************************************************************)
(* SpecV: submit_application over every payload, one request thread.       *)
(***************************************************************************)
InitV == InitCommon /\ budget = MaxReqsV

NextV ==
    \/ init_db
    \/ can_accept("t1") /\ \E data \in AllPayloads : submit_application("t1", data)
    \/ apply_insert("t1")
    \/ apply_commit("t1")
    \/ apply_confirm("t1")
    \/ apply_notify("t1")

SpecV == InitV /\ [][NextV]_vars

(***************************************************************************)
(* Properties.                                                             *)
(***************************************************************************)
Whitespace == {" ", "\t", "\n", "\r"}

RECURSIVE lstrip(_)
lstrip(s) == IF s # << >> /\ Head(s) \in Whitespace THEN lstrip(Tail(s)) ELSE s

RECURSIVE rstrip(_)
rstrip(s) ==
    IF s # << >> /\ s[Len(s)] \in Whitespace THEN rstrip(SubSeq(s, 1, Len(s) - 1)) ELSE s

\* str.strip()
strip(s) == rstrip(lstrip(s))

\* positions of the required fields that are absent or empty once trimmed
blank_fields(data) ==
    {i \in 1..Len(required) :
        required[i] \notin DOMAIN data \/ strip(data[required[i]]) = << >>}

\* thread t has answered its latest request
answered(t) == pc[t] = "idle" /\ resp[t] # NoResp

row_of(id) == CHOOSE r \in applications : r.id = id

\* C1: a status only ever changes from pending to approved or to rejected; a
\* decided application keeps its status under later approve and reject calls.
C1_StatusChangesOnlyFromPending ==
    [][\A r \in applications : \A q \in applications' :
          (q.id = r.id /\ q.status # r.status)
             => (r.status = "pending" /\ q.status \in {"approved", "rejected"})]_vars

\* C2: a submission with a required field absent or blank after trimming is
\* answered 400 "Missing <first such field>" and inserts no row.
C2_BlankFieldRejected ==
    \A t \in Threads :
        (req[t].op = "apply" /\ blank_fields(req[t].data) # {} /\ answered(t))
           => /\ resp[t] =
                   Error(400, <<"Missing ", required[MinOf(blank_fields(req[t].data))]>>)
              /\ ~committed[t]

\* what C3 expects of a submission whose required fields are all non-blank
C3_Expected(data) ==
    IF data["experience_level"] \notin {Yes, No}
    THEN Error(400, <<"Experience level must be 'Yes' or 'No'">>)
    ELSE IF data["language"] \notin {VALID_LANGUAGES[i] : i \in 1..Len(VALID_LANGUAGES)}
    THEN Error(400, <<"Invalid language selection">>)
    ELSE IF data["availability"] \notin {Day, Night, Both}
    THEN Error(400, <<"Availability must be 'Day', 'Night', or 'Both'">>)
    ELSE IF "@" \notin {data["email"][i] : i \in 1..Len(data["email"])}
    THEN Error(400, <<"Invalid email format">>)
    ELSE Success(<<"Submitted">>)

\* C3: a submission whose six required fields are non-blank is answered 200
\* with exactly one row inserted iff experience_level, language, availability
\* and email pass their rules; otherwise 400 with the error of the first rule
\* violated, in that order, and no row inserted.
C3_ValidationDecides ==
    /\ [](\A t \in Threads :
            (req[t].op = "apply" /\ blank_fields(req[t].data) = {})
               => /\ Cardinality({VALID_LANGUAGES[i] : i \in 1..Len(VALID_LANGUAGES)}) = 10
                  /\ (C3_Expected(req[t].data).code = 400 => answered(t))
                  /\ (answered(t) =>
                        /\ resp[t] = C3_Expected(req[t].data)
                        /\ (resp[t].code = 200 <=> committed[t])
                        /\ (committed[t] => txn[t].row \in applications)))
    /\ [][Cardinality(applications') =
            Cardinality(applications)
              + (IF \E t \in Threads : apply_commit(t) THEN 1 ELSE 0)]_vars

C3_Witness ==
    /\ answered("t1") /\ req["t1"].op = "apply"
    /\ blank_fields(req["t1"].data) = {}
    /\ req["t1"].data["language"] = Latin
    /\ req["t1"].data["availability"] = Noon
    /\ req["t1"].data["email"] = MailBad
    /\ resp["t1"] = Error(400, <<"Invalid language selection">>)
    /\ applications = {}

\* C4: the commit of a submit adds exactly one row, whose id exceeds every id
\* assigned before and whose status is pending, and leaves every other row as
\* it was; ids are distinct in every state.
C4_InsertMonotone ==
    /\ [](\A r, q \in applications : r.id = q.id => r = q)
    /\ [][\A t \in Threads : apply_commit(t) =>
            \E r \in applications' :
               /\ r \notin applications
               /\ applications' = applications \cup {r}
               /\ r.status = "pending"
               /\ r.id > app_seq
               /\ \A q \in applications : q.id < r.id]_vars

C4_Witness ==
    /\ Cardinality(applications) = 2
    /\ \E r \in applications : r.status # "pending"

\* the cases of change_password, read off the form and the accounts
form_missing(form) ==
    \E k \in {"currentPassword", "newPassword", "confirmPassword"} :
        k \notin DOMAIN form \/ form[k] = << >>

form_target(form) ==
    {a \in admins :
        a.email = (IF "email" \in DOMAIN form THEN form["email"] ELSE default_email)}

form_policy_ok(form) ==
    /\ ~form_missing(form)
    /\ form["newPassword"] = form["confirmPassword"]
    /\ Len(form["newPassword"]) >= 6

form_authorized(form) ==
    \E a \in form_target(form) : checkpw(form["currentPassword"], a.password_hash)

C5_ExpectedCode(form) ==
    IF form_missing(form) THEN 400
    ELSE IF form["newPassword"] # form["confirmPassword"] THEN 400
    ELSE IF Len(form["newPassword"]) < 6 THEN 400
    ELSE IF form_target(form) = {} THEN 401
    ELSE IF ~form_authorized(form) THEN 401
    ELSE 0

\* C5: a request answered with an error has written nothing and attempted no
\* notification; approve or reject of an unknown id is answered 404 and
\* change-password with a missing field, a mismatch, a short password, an
\* unknown account or a wrong current password 400/400/400/401/401, each
\* leaving every row and every password hash as it was.
C5_ErrorsLeaveStore ==
    /\ [](\A t \in Threads :
            (answered(t) /\ resp[t].code >= 400)
               => (~committed[t] /\ sent[t] = << >> /\ txn[t] = NoTxn))
    /\ [][\A t \in Threads :
            /\ (/\ budget' < budget
                /\ req'[t].op \in {"approve", "reject"}
                /\ ~\E r \in applications : r.id = req'[t].app_id)
                  => \/ (resp'[t].code = 404 /\ pc'[t] = "idle" /\ store' = store)
                     \/ ~(\/ approve_application(t, req'[t].app_id)
                          \/ reject_application(t, req'[t].app_id))
            /\ (/\ budget' < budget
                /\ req'[t].op = "change_password"
                /\ C5_ExpectedCode(req'[t].form) # 0)
                  => \/ (resp'[t].code = C5_ExpectedCode(req'[t].form)
                         /\ pc'[t] = "idle" /\ store' = store)
                     \/ ~change_password(t, req'[t].form)
            /\ (resp'[t] # resp[t] /\ resp'[t].code >= 400) => store' = store]_vars

C5_Witness ==
    /\ answered("t1") /\ req["t1"].op = "approve" /\ resp["t1"].code = 404
    /\ answered("t2") /\ req["t2"].op = "change_password" /\ resp["t2"].code = 401
    /\ ~form_missing(req["t2"].form) /\ form_target(req["t2"].form) # {}
    /\ applications # {}

kinds(attempts) == [i \in 1..Len(attempts) |-> attempts[i].kind]

\* C6: once a submission's insert is committed, the confirmation and the
\* admin notification are each attempted exactly once, in that order and
\* whatever the result of either, the row stays and the answer is 200.
C6_BothNotificationsAttempted ==
    \A t \in Threads :
        (req[t].op = "apply" /\ committed[t])
           => /\ \E r \in applications : r.id = txn[t].row.id
              /\ pc[t] \in {"apply_confirm", "apply_notify", "idle"}
              /\ pc[t] = "apply_confirm" => sent[t] = << >>
              /\ pc[t] = "apply_notify" =>
                   (kinds(sent[t]) = <<"confirmation">>
                    /\ sent[t][1].to = req[t].data["email"])
              /\ pc[t] = "idle" =>
                   (/\ kinds(sent[t]) = <<"confirmation", "admin_notification">>
                    /\ sent[t][1].to = req[t].data["email"]
                    /\ sent[t][2].to = ADMIN_EMAIL
                    /\ resp[t] = Success(<<"Submitted">>))

C6_Witness ==
    \E t \in Threads :
        /\ req[t].op = "apply" /\ answered(t) /\ resp[t].code = 200
        /\ Len(sent[t]) = 2
        /\ sent[t][1].result = "False" /\ sent[t][2].result = "True"
        /\ \E r \in applications : r.id = txn[t].row.id

\* C7: a handler attempts a notification only after its write is committed
\* and its write lock released; a request answered 500 has attempted none;
\* an approve or reject answered 200 has made exactly one attempt, to the
\* applicant; the attempt, failed or not, leaves every row as it is and is
\* followed by the 200.
C7_CommitBeforeNotify ==
    /\ [](\A t \in Threads :
            /\ sent[t] # << >> => (committed[t] /\ lock # t)
            /\ pc[t] \in {"apply_confirm", "apply_notify", "decide_mail"}
                 => (committed[t] /\ lock # t)
            /\ (answered(t) /\ resp[t].code = 500) => (sent[t] = << >> /\ ~committed[t])
            /\ (answered(t) /\ req[t].op \in {"approve", "reject"} /\ resp[t].code = 200)
                 => /\ Len(sent[t]) = 1
                    /\ sent[t][1].kind = (IF req[t].op = "approve" THEN "approval"
                                          ELSE "rejection")
                    /\ \E r \in applications :
                          r.id = req[t].app_id /\ r.email = sent[t][1].to)
    /\ [][\A t \in Threads :
            /\ sent'[t] # sent[t] /\ sent'[t] # << >> =>
                 (committed[t] /\ lock # t /\ applications' = applications)
            /\ decide_mail(t) => (resp'[t].code = 200 /\ pc'[t] = "idle")
            /\ decide_commit(t) =>
                 \E r \in applications' :
                    r.id = req[t].app_id
                    /\ r.status = (IF req[t].op = "approve" THEN "approved"
                                   ELSE "rejected")]_vars

C7_Witness ==
    /\ answered("t1") /\ req["t1"].op = "approve" /\ resp["t1"].code = 200
    /\ sent["t1"][1].result = "False"
    /\ row_of(req["t1"].app_id).status = "approved"
    /\ answered("t2") /\ resp["t2"].code = 500

\* the account a change-password call of thread t is rewriting
C8_Account(t, rows) == {a \in rows : a.id = loc[t].admin_id}

C8_Succeeds(t) ==
    /\ (/\ budget' < budget
        /\ req'[t].op = "change_password"
        /\ form_policy_ok(req'[t].form) /\ form_authorized(req'[t].form))
          => (pc'[t] = "pw_update" \/ ~change_password(t, req'[t].form))
    /\ pw_commit(t) =>
         /\ resp'[t].code = 200
         /\ \A a \in C8_Account(t, admins') :
               checkpw(req[t].form["newPassword"], a.password_hash)
         /\ C8_Account(t, admins') # {}
         /\ \A a \in admins : a.id # loc[t].admin_id => a \in admins'
         /\ Cardinality(admins') = Cardinality(admins)

\* C8 as stated: after a successful change the new password is accepted and
\* the old one rejected, the other accounts' hashes unchanged.
C8_OldPasswordRejected ==
    [][\A t \in Threads :
          /\ C8_Succeeds(t)
          /\ pw_commit(t) =>
               \A a \in C8_Account(t, admins') :
                  ~checkpw(req[t].form["currentPassword"], a.password_hash)]_vars

\* C8 amended: the old password is rejected afterwards when the new password
\* differs from it.
C8_OldPasswordRejectedIfDifferent ==
    [][\A t \in Threads :
          /\ C8_Succeeds(t)
          /\ (pw_commit(t)
              /\ req[t].form["newPassword"] # req[t].form["currentPassword"]) =>
               \A a \in C8_Account(t, admins') :
                  ~checkpw(req[t].form["currentPassword"], a.password_hash)]_vars

C8_Witness ==
    \E t \in Threads :
        /\ answered(t) /\ req[t].op = "change_password" /\ resp[t].code = 200
        /\ req[t].form["newPassword"] # req[t].form["currentPassword"]
        /\ \E a \in admins :
              /\ a.id = loc[t].admin_id
              /\ checkpw(req[t].form["newPassword"], a.password_hash)
              /\ ~checkpw(req[t].form["currentPassword"], a.password_hash)
        /\ \E a \in admins : a.id # loc[t].admin_id

bootstrap_accounts(rows) == {a \in rows : a.email = default_email}

\* C9: once init_db has run there is exactly one account with the bootstrap
\* email; init_db adds it, with the default password, only when there is
\* none, and leaves every existing row, changed hashes included, as it is.
C9_OneBootstrapAccount ==
    /\ [](/\ Cardinality(bootstrap_accounts(admins)) <= 1
          /\ started => Cardinality(bootstrap_accounts(admins)) = 1)
    /\ [][init_db =>
            /\ admins \subseteq admins'
            /\ Cardinality(bootstrap_accounts(admins')) = 1
            /\ \A a \in admins' \ admins :
                  /\ bootstrap_accounts(admins) = {}
                  /\ a.email = default_email
                  /\ checkpw(default_password, a.password_hash)]_vars

\* init_db has run again (the threads hold nothing) after a password change
C9_Witness ==
    /\ started
    /\ \A t \in Threads : req[t] = NoReq
    /\ budget < MaxReqs
    /\ \E a \in bootstrap_accounts(admins) : checkpw(PwNew, a.password_hash)

\* C10: when no approve or reject call on an application is in flight, the
\* latest decision email attempted for it matches its stored status.
C10_LastMailMatchesStatus ==
    \A id \in DOMAIN last_mail :
        (/\ last_mail[id] # "none"
         /\ ~\E t \in Threads :
               pc[t] # "idle" /\ req[t].op \in {"approve", "reject"}
               /\ req[t].app_id = id)
           => \E r \in applications :
                 /\ r.id = id
                 /\ (last_mail[id] = "approval" <=> r.status = "approved")
                 /\ (last_mail[id] = "rejection" <=> r.status = "rejected")

=============================================================================
